---- MODULE Spec2Model ----
(***************************************************************************)
(* The resource graph declared by cloudfront-s3-oac: app.py reads two      *)
(* environment variables and constructs CloudFrontS3Stack, whose           *)
(* constructor declares, statement by statement, a KMS key and alias, a    *)
(* private bucket, an origin access control, a distribution, a bucket      *)
(* policy, one explicit dependency, a key-policy statement and six         *)
(* outputs.  The synthesized graph is then handed to a provisioning engine *)
(* that creates resources in dependency order and deletes them in the      *)
(* reverse order.                                                          *)
(*                                                                         *)
(* A value is a sequence of parts (what an f-string or a token resolves    *)
(* to in the template): a literal, a reference to a declared resource, or  *)
(* a pseudo parameter that the engine fills in at deploy time.             *)
(***************************************************************************)
EXTENDS Integers, Sequences, FiniteSets, TLC

VARIABLES
    env,        \* the process environment: variable name -> value or None
    pc,         \* the next statement of the program / the engine's phase
    runs,       \* how many times the program has been started
    account,    \* env.account of the stack (None: environment-agnostic)
    region,     \* env.region of the stack
    resources,  \* logical id -> descriptor
    dependsOn,  \* explicit ordering edges <<from, to>> (add_dependency)
    outputs,    \* output name -> value
    previous,   \* <<>> or <<graph of the previous run>>
    created,    \* resources the engine has created
    deleted     \* resources the engine has deleted again

vars == <<env, pc, runs, account, region, resources, dependsOn, outputs,
          previous, created, deleted>>

----------------------------------------------------------------------------
(* Bounds and input sets *)

MaxRuns == 2

None == "None"

AccountIds == {"111111111111", "222222222222"}

RegionNames == {"us-east-1", "eu-west-1"}

AccountVar == "ACCOUNT_ID_ENV_VAR"

RegionVarM == "CDK_DEFAULT_REGION"

RegionVar == "us-east-1"

EnvVarNames == {"ACCOUNT_ID_ENV_VAR", "us-east-1", "CDK_DEFAULT_REGION"}

(* what a variable may hold: an account id, a region name, or nothing *)
EnvValues(name) ==
    IF name = "ACCOUNT_ID_ENV_VAR" THEN AccountIds \cup {None}
    ELSE RegionNames \cup {None}

(* os.getenv(name): the value of the variable, None when it is not set *)
getenv(name) == IF name \in DOMAIN env THEN env[name] ELSE None

----------------------------------------------------------------------------
(* Values *)

Lit(s) == [kind |-> "lit", v |-> s, attr |-> ""]

Ref(id) == [kind |-> "ref", v |-> id, attr |-> "Ref"]

GetAtt(id, a) == [kind |-> "ref", v |-> id, attr |-> a]

Pseudo(p) == [kind |-> "pseudo", v |-> p, attr |-> ""]

(* self.account: the account given, or the deploy-time pseudo parameter *)
StackAccount == IF account = None THEN Pseudo("AWS::AccountId") ELSE Lit(account)

NoCondition == [op |-> "", key |-> "", val |-> <<>>]

----------------------------------------------------------------------------
(* Logical ids.  The first six are the ids the constructor passes; the    *)
(* last two are declared by library constructs under the ids' paths.      *)

KeyId == "S3KMSKey"

AliasId == "S3KMSKeyAlias"

BucketId == "S3Bucket"

OacId == "OriginAccessControl"

DistributionId == "CloudFrontDistribution"

BucketPolicyId == "S3BucketPolicy"

OriginIdentityId == "CloudFrontDistribution/Origin1/S3Origin"

BucketAutoPolicyId == "S3Bucket/Policy"

CloudFrontPrincipal == <<Lit("cloudfront.amazonaws.com")>>

Declared == DOMAIN resources

(* A descriptor: its type, its properties by path, its policy statements *)
Descriptor(type, props, policy, removal) ==
    [type |-> type, props |-> props, policy |-> policy, removal |-> removal]

Statement(ptype, principal, actions, resource, cond) ==
    [effect |-> "Allow", principalType |-> ptype, principal |-> principal,
     actions |-> actions, resource |-> resource, condition |-> cond]

----------------------------------------------------------------------------
(* kms.Key: rotation on, destroyed with the stack; the key starts with    *)
(* the library's default policy, which hands the key to the account root. *)

KmsKeyDescriptor ==
    Descriptor("AWS::KMS::Key",
               ("Description" :> <<Lit("KMS Key for S3 bucket encryption")>>)
               @@ ("EnableKeyRotation" :> <<Lit("true")>>),
               <<Statement("AWS",
                           <<Lit("arn:aws:iam::"), StackAccount, Lit(":root")>>,
                           {"kms:*"}, <<Lit("*")>>, NoCondition)>>,
               "DESTROY")

(* kms.Alias: alias/s3, targeting the key *)
KmsAliasDescriptor ==
    Descriptor("AWS::KMS::Alias",
               ("AliasName" :> <<Lit("alias/s3")>>)
               @@ ("TargetKeyId" :> <<GetAtt(KeyId, "Arn")>>),
               <<>>, "DELETE")

BlockPublicAccessM == "BLOCK_ACLS"

BlockPublicAccess == "BLOCK_ALL"

BucketNameM == IF runs = 1 THEN "bucket-prueba-dummy-oac"
               ELSE "bucket-prueba-dummy-oac-2"

BucketName == "bucket-prueba-dummy-oac"

(* s3.Bucket: private, KMS-encrypted with the key, versioned *)
S3BucketDescriptor ==
    Descriptor("AWS::S3::Bucket",
               ("BucketName" :> <<Lit(BucketName)>>)
               @@ ("PublicAccessBlockConfiguration" :> <<Lit(BlockPublicAccess)>>)
               @@ ("BucketEncryption.SSEAlgorithm" :> <<Lit("aws:kms")>>)
               @@ ("BucketEncryption.KMSMasterKeyID" :> <<GetAtt(KeyId, "Arn")>>)
               @@ ("BucketEncryption.BucketKeyEnabled" :> <<Lit("true")>>)
               @@ ("VersioningConfiguration.Status" :> <<Lit("Enabled")>>),
               <<>>, "DESTROY")

(* cloudfront.CfnOriginAccessControl *)
OriginAccessControlDescriptor ==
    Descriptor("AWS::CloudFront::OriginAccessControl",
               ("OriginAccessControlConfig.Name" :> <<Lit("S3-OAC")>>)
               @@ ("OriginAccessControlConfig.OriginAccessControlOriginType" :> <<Lit("s3")>>)
               @@ ("OriginAccessControlConfig.SigningBehavior" :> <<Lit("always")>>)
               @@ ("OriginAccessControlConfig.SigningProtocol" :> <<Lit("sigv4")>>),
               <<>>, "DELETE")

OriginDomainNameM == <<Lit("bucket-prueba-dummy-oac.s3.amazonaws.com")>>

(* origins.S3Origin(bucket=s3_bucket): the origin's domain is the bucket's *)
OriginDomainName == <<GetAtt(BucketId, "RegionalDomainName")>>

(* cloudfront.Distribution with one S3 origin.  origin_access_identity is *)
(* None, and the library origin then declares an identity of its own,     *)
(* names it in S3OriginConfig and grants it s3:GetObject through the      *)
(* bucket's resource policy.                                              *)
DistributionDescriptor ==
    Descriptor("AWS::CloudFront::Distribution",
               ("DistributionConfig.Origins.0.DomainName" :> OriginDomainName)
               @@ ("DistributionConfig.Origins.0.S3OriginConfig.OriginAccessIdentity" :>
                     <<Lit("origin-access-identity/cloudfront/"), Ref(OriginIdentityId)>>)
               @@ ("DistributionConfig.DefaultCacheBehavior.ViewerProtocolPolicy" :>
                     <<Lit("redirect-to-https")>>)
               @@ ("DistributionConfig.DefaultCacheBehavior.CachePolicyId" :>
                     <<Lit("CACHING_OPTIMIZED")>>)
               @@ ("DistributionConfig.DefaultCacheBehavior.OriginRequestPolicyId" :>
                     <<Lit("CORS_S3_ORIGIN")>>)
               @@ ("DistributionConfig.DefaultRootObject" :> <<Lit("index.html")>>)
               @@ ("DistributionConfig.Comment" :>
                     <<Lit("CloudFront distribution for S3 bucket with OAC")>>),
               <<>>, "DELETE")

OriginIdentityDescriptor ==
    Descriptor("AWS::CloudFront::CloudFrontOriginAccessIdentity",
               ("CloudFrontOriginAccessIdentityConfig.Comment" :>
                     <<Lit("Identity for CloudFrontDistribution/Origin1")>>),
               <<>>, "DELETE")

BucketAutoPolicyDescriptor ==
    Descriptor("AWS::S3::BucketPolicy",
               ("Bucket" :> <<Ref(BucketId)>>),
               <<Statement("CanonicalUser",
                           <<GetAtt(OriginIdentityId, "S3CanonicalUserId")>>,
                           {"s3:GetObject"},
                           <<GetAtt(BucketId, "Arn"), Lit("/*")>>, NoCondition)>>,
               "DELETE")

(* add_property_override(path, value): the last word on a property *)
AddPropertyOverride(id, path, value) ==
    [resources EXCEPT ![id].props =
        [p \in (DOMAIN @) \cup {path} |-> IF p = path THEN value ELSE @[p]]]

OriginAccessControlRefM == <<GetAtt("OriginAccessControlConfig", "Id")>>

(* origin_access_control.attr_id *)
OriginAccessControlRef == <<GetAtt(OacId, "Id")>>

OacOverridePathM == "DistributionConfig.Origins.0.S3OriginConfig.OriginAccessControlId"

OacOverridePath == "DistributionConfig.Origins.0.OriginAccessControlId"

OaiOverridePath == "DistributionConfig.Origins.0.S3OriginConfig.OriginAccessIdentity"

BucketPolicySourceArnM ==
    <<Lit("arn:aws:cloudfront::"), StackAccount, Lit(":distribution/"), Lit("*")>>

(* f"arn:aws:cloudfront::{self.account}:distribution/{distribution.distribution_id}" *)
BucketPolicySourceArn ==
    <<Lit("arn:aws:cloudfront::"), StackAccount, Lit(":distribution/"),
      Ref(DistributionId)>>

(* s3.CfnBucketPolicy: CloudFront may read objects, for this distribution *)
S3BucketPolicyDescriptor ==
    Descriptor("AWS::S3::BucketPolicy",
               ("Bucket" :> <<Ref(BucketId)>>),
               <<Statement("Service", CloudFrontPrincipal, {"s3:GetObject"},
                           <<GetAtt(BucketId, "Arn"), Lit("/*")>>,
                           [op |-> "StringEquals", key |-> "AWS:SourceArn",
                            val |-> BucketPolicySourceArn])>>,
               "DELETE")

PolicyDependencyM == {<<DistributionId, BucketPolicyId>>}

(* s3_bucket_policy.add_dependency(cfn_distribution) *)
PolicyDependency == {<<BucketPolicyId, DistributionId>>}

KmsSourceArnScopedM ==
    <<Lit("arn:aws:cloudfront::"), StackAccount, Lit(":distribution/"),
      Ref(DistributionId)>>

KmsSourceArnAnyAccountM ==
    <<Lit("arn:aws:cloudfront::"), Lit("*"), Lit(":distribution/"), Lit("*")>>

(* f"arn:aws:cloudfront::{self.account}:distribution/*" *)
KmsSourceArn ==
    <<Lit("arn:aws:cloudfront::"), StackAccount, Lit(":distribution/"), Lit("*")>>

(* iam.PolicyStatement for the key: decrypt and data keys for CloudFront *)
KmsPolicyStatement ==
    Statement("Service", CloudFrontPrincipal,
              {"kms:Decrypt", "kms:GenerateDataKey"}, <<Lit("*")>>,
              [op |-> "StringLike", key |-> "AWS:SourceArn", val |-> KmsSourceArn])

(* the six CfnOutput values *)
OutputValues ==
    ("BucketName" :> <<Ref(BucketId)>>)
    @@ ("KMSKeyId" :> <<Ref(KeyId)>>)
    @@ ("KMSKeyAlias" :> resources[AliasId].props["AliasName"])
    @@ ("CloudFrontDistributionId" :> <<Ref(DistributionId)>>)
    @@ ("CloudFrontDomainName" :> <<GetAtt(DistributionId, "DomainName")>>)
    @@ ("OriginAccessControlId" :> OriginAccessControlRef)

----------------------------------------------------------------------------
(* The dependency relation the engine reads off the graph: a descriptor   *)
(* depends on every resource one of its values refers to, and on the      *)
(* targets of its explicit edges.                                         *)

ValueRefs(val) == {val[i].v : i \in {j \in DOMAIN val : val[j].kind = "ref"}}

StatementRefs(st) ==
    ValueRefs(st.principal) \cup ValueRefs(st.resource) \cup ValueRefs(st.condition.val)

DescriptorRefs(d) ==
    UNION {ValueRefs(d.props[p]) : p \in DOMAIN d.props}
    \cup UNION {StatementRefs(d.policy[i]) : i \in DOMAIN d.policy}

Deps ==
    UNION {{<<a, b>> : b \in DescriptorRefs(resources[a])} : a \in Declared}
    \cup dependsOn

DepsOf(r) == {e[2] : e \in {d \in Deps : d[1] = r}}

DependentsOf(r) == {e[1] : e \in {d \in Deps : d[2] = r}}

RECURSIVE ReachableFrom(_, _)
ReachableFrom(seen, frontier) ==
    IF frontier = {} THEN seen
    ELSE LET next == UNION {DepsOf(r) : r \in frontier}
         IN  ReachableFrom(seen \cup next, next \ seen)

(* what r depends on, directly or through other resources *)
DependsOnTransitively(r) == ReachableFrom({}, {r})

Acyclic == \A r \in Declared : r \notin DependsOnTransitively(r)

Graph ==
    [account |-> account, region |-> region, resources |-> resources,
     dependsOn |-> dependsOn, outputs |-> outputs]

----------------------------------------------------------------------------
(* The program *)

Init ==
    /\ env \in [EnvVarNames -> AccountIds \cup RegionNames \cup {None}]
    /\ \A n \in EnvVarNames : env[n] \in EnvValues(n)
    /\ pc = "app"
    /\ runs = 1
    /\ account = None
    /\ region = None
    /\ resources = [r \in {} |-> 0]
    /\ dependsOn = {}
    /\ outputs = [o \in {} |-> <<>>]
    /\ previous = <<>>
    /\ created = {}
    /\ deleted = {}

(* app.py: cdk.App(), the Environment from the two getenv calls, and the  *)
(* stack's super().__init__ that takes it                                 *)
App ==
    /\ pc = "app"
    /\ account' = getenv(AccountVar)
    /\ region' = getenv(RegionVar)
    /\ pc' = "kms_key"
    /\ UNCHANGED <<env, runs, resources, dependsOn, outputs, previous, created, deleted>>

DeclareKmsKey ==
    /\ pc = "kms_key"
    /\ resources' = resources @@ (KeyId :> KmsKeyDescriptor)
    /\ pc' = "kms_alias"
    /\ UNCHANGED <<env, runs, account, region, dependsOn, outputs, previous, created, deleted>>

DeclareKmsAlias ==
    /\ pc = "kms_alias"
    /\ resources' = resources @@ (AliasId :> KmsAliasDescriptor)
    /\ pc' = "s3_bucket"
    /\ UNCHANGED <<env, runs, account, region, dependsOn, outputs, previous, created, deleted>>

DeclareS3Bucket ==
    /\ pc = "s3_bucket"
    /\ resources' = resources @@ (BucketId :> S3BucketDescriptor)
    /\ pc' = "origin_access_control"
    /\ UNCHANGED <<env, runs, account, region, dependsOn, outputs, previous, created, deleted>>

DeclareOriginAccessControl ==
    /\ pc = "origin_access_control"
    /\ resources' = resources @@ (OacId :> OriginAccessControlDescriptor)
    /\ pc' = "distribution"
    /\ UNCHANGED <<env, runs, account, region, dependsOn, outputs, previous, created, deleted>>

DeclareDistribution ==
    /\ pc = "distribution"
    /\ resources' = resources @@ (DistributionId :> DistributionDescriptor)
                              @@ (OriginIdentityId :> OriginIdentityDescriptor)
                              @@ (BucketAutoPolicyId :> BucketAutoPolicyDescriptor)
    /\ pc' = "override_oai"
    /\ UNCHANGED <<env, runs, account, region, dependsOn, outputs, previous, created, deleted>>

OverrideOriginAccessIdentity ==
    /\ pc = "override_oai"
    /\ resources' = AddPropertyOverride(DistributionId, OaiOverridePath, <<Lit("")>>)
    /\ pc' = "override_oac"
    /\ UNCHANGED <<env, runs, account, region, dependsOn, outputs, previous, created, deleted>>

OverrideOriginAccessControlId ==
    /\ pc = "override_oac"
    /\ resources' = AddPropertyOverride(DistributionId, OacOverridePath, OriginAccessControlRef)
    /\ pc' = "s3_bucket_policy"
    /\ UNCHANGED <<env, runs, account, region, dependsOn, outputs, previous, created, deleted>>

DeclareS3BucketPolicy ==
    /\ pc = "s3_bucket_policy"
    /\ resources' = resources @@ (BucketPolicyId :> S3BucketPolicyDescriptor)
    /\ pc' = "add_dependency"
    /\ UNCHANGED <<env, runs, account, region, dependsOn, outputs, previous, created, deleted>>

AddDependency ==
    /\ pc = "add_dependency"
    /\ dependsOn' = dependsOn \cup PolicyDependency
    /\ pc' = "kms_policy"
    /\ UNCHANGED <<env, runs, account, region, resources, outputs, previous, created, deleted>>

(* kms_key.add_to_resource_policy(kms_policy_statement) *)
AddToKeyPolicy ==
    /\ pc = "kms_policy"
    /\ resources' = [resources EXCEPT ![KeyId].policy = Append(@, KmsPolicyStatement)]
    /\ pc' = "outputs"
    /\ UNCHANGED <<env, runs, account, region, dependsOn, outputs, previous, created, deleted>>

DeclareOutputs ==
    /\ pc = "outputs"
    /\ outputs' = OutputValues
    /\ pc' = "synth"
    /\ UNCHANGED <<env, runs, account, region, resources, dependsOn, previous, created, deleted>>

(* app.synth(): the graph is written out as it stands *)
Synth ==
    /\ pc = "synth"
    /\ pc' = "synthesized"
    /\ UNCHANGED <<env, runs, account, region, resources, dependsOn, outputs, previous,
                   created, deleted>>

(* the program is started again in the same environment *)
Rerun ==
    /\ pc = "synthesized"
    /\ runs < MaxRuns
    /\ previous' = <<Graph>>
    /\ runs' = runs + 1
    /\ account' = None
    /\ region' = None
    /\ resources' = [r \in {} |-> 0]
    /\ dependsOn' = {}
    /\ outputs' = [o \in {} |-> <<>>]
    /\ pc' = "app"
    /\ UNCHANGED <<env, created, deleted>>

----------------------------------------------------------------------------
(* The provisioning engine, as far as the graph constrains it: it creates *)
(* a resource once everything the resource depends on exists, and deletes *)
(* a resource once nothing that depends on it is left.                    *)

Deploy ==
    /\ pc = "synthesized"
    /\ pc' = "deploying"
    /\ UNCHANGED <<env, runs, account, region, resources, dependsOn, outputs, previous,
                   created, deleted>>

CanCreate(r) == r \in Declared \ created /\ DepsOf(r) \subseteq created

Create(r) ==
    /\ pc = "deploying"
    /\ CanCreate(r)
    /\ created' = created \cup {r}
    /\ UNCHANGED <<env, pc, runs, account, region, resources, dependsOn, outputs, previous,
                   deleted>>

CreateSome == \E r \in Declared : Create(r)

Destroy ==
    /\ pc = "deploying"
    /\ created = Declared
    /\ pc' = "destroying"
    /\ UNCHANGED <<env, runs, account, region, resources, dependsOn, outputs, previous,
                   created, deleted>>

CanDelete(r) ==
    r \in created \ deleted /\ (DependentsOf(r) \cap created) \subseteq deleted

Delete(r) ==
    /\ pc = "destroying"
    /\ CanDelete(r)
    /\ deleted' = deleted \cup {r}
    /\ UNCHANGED <<env, pc, runs, account, region, resources, dependsOn, outputs, previous,
                   created>>

DeleteSome == \E r \in Declared : Delete(r)

Next ==
    \/ App
    \/ DeclareKmsKey
    \/ DeclareKmsAlias
    \/ DeclareS3Bucket
    \/ DeclareOriginAccessControl
    \/ DeclareDistribution
    \/ OverrideOriginAccessIdentity
    \/ OverrideOriginAccessControlId
    \/ DeclareS3BucketPolicy
    \/ AddDependency
    \/ AddToKeyPolicy
    \/ DeclareOutputs
    \/ Synth
    \/ Rerun
    \/ Deploy
    \/ CreateSome
    \/ Destroy
    \/ DeleteSome

Spec == Init /\ [][Next]_vars

(* the engine keeps working while there is a resource it can create *)
FairSpec == Spec /\ WF_vars(CreateSome)

----------------------------------------------------------------------------
(* Positions in the program, and what a policy condition lets through *)

Labels ==
    <<"app", "kms_key", "kms_alias", "s3_bucket", "origin_access_control",
      "distribution", "override_oai", "override_oac", "s3_bucket_policy",
      "add_dependency", "kms_policy", "outputs", "synth", "synthesized",
      "deploying", "destroying">>

Pos(l) == CHOOSE i \in DOMAIN Labels : Labels[i] = l

(* the statement at label l has been executed in this run *)
Past(l) == Pos(pc) > Pos(l)

(* the account the graph is deployed into *)
DeployAccounts == IF account = None THEN AccountIds ELSE {account}

DistributionNames == {DistributionId, "OtherDistribution"}

(* a value with the deploy-time account filled in; a reference stands for *)
(* the referenced resource's own identifier                               *)
Resolved(val, acct) ==
    [i \in DOMAIN val |-> IF val[i].kind = "pseudo" THEN acct ELSE val[i].v]

(* the AWS:SourceArn of a request made by distribution d of account a *)
RequestArn(a, d) == <<"arn:aws:cloudfront::", a, ":distribution/", d>>

RECURSIVE Glob(_, _)
Glob(pat, str) ==
    IF pat = <<>> THEN str = <<>>
    ELSE IF Head(pat) = "*"
         THEN Glob(Tail(pat), str) \/ (str # <<>> /\ Glob(pat, Tail(str)))
         ELSE str # <<>> /\ Head(pat) = Head(str) /\ Glob(Tail(pat), Tail(str))

ConditionAllows(cond, acct, arn) ==
    CASE cond.op = "StringEquals" -> Resolved(cond.val, acct) = arn
      [] cond.op = "StringLike" -> Glob(Resolved(cond.val, acct), arn)
      [] OTHER -> TRUE

GrantsToCloudFront(st, actions) ==
    /\ st.effect = "Allow"
    /\ st.principalType = "Service"
    /\ st.principal = CloudFrontPrincipal
    /\ st.actions \cap actions # {}

----------------------------------------------------------------------------
(* C1: once add_dependency has run, the graph holds the explicit edge from *)
(* the bucket policy to the distribution, and an engine that creates in    *)
(* dependency order never has the bucket policy without the distribution.  *)
C1_PolicyAfterDistribution ==
    /\ Past("add_dependency") => <<"S3BucketPolicy", "CloudFrontDistribution">> \in dependsOn
    /\ "S3BucketPolicy" \in created => "CloudFrontDistribution" \in created

C1_Witness ==
    /\ pc = "deploying"
    /\ "S3BucketPolicy" \in created
    /\ <<"S3BucketPolicy", "CloudFrontDistribution">> \in dependsOn

(* C2: the dependency relation of the graph (references and explicit edges) *)
(* never holds a cycle, and a deployment under way leads to every declared  *)
(* resource being created.                                                  *)
C2_AcyclicAndProgress ==
    /\ []Acyclic
    /\ (pc = "deploying") ~> (created = Declared)

C2_Witness ==
    /\ pc = "deploying"
    /\ Cardinality(Declared) = 8
    /\ created = Declared

(* C3: every bucket-policy statement that lets the CloudFront service       *)
(* principal read objects is conditioned, by exact match on AWS:SourceArn,  *)
(* on the distribution of this graph: it lets through that distribution in  *)
(* the deploying account and no other.                                      *)
C3_BucketPolicyExactDistribution ==
    \A id \in Declared : resources[id].type = "AWS::S3::BucketPolicy" =>
        \A i \in DOMAIN resources[id].policy :
            LET st == resources[id].policy[i] IN
            GrantsToCloudFront(st, {"s3:GetObject"}) =>
                /\ st.condition.op = "StringEquals"
                /\ st.condition.key = "AWS:SourceArn"
                /\ st.condition.val[Len(st.condition.val)] = Ref("CloudFrontDistribution")
                /\ "CloudFrontDistribution" \in Declared
                /\ resources["CloudFrontDistribution"].type = "AWS::CloudFront::Distribution"
                /\ \A acct \in DeployAccounts, a \in AccountIds, d \in DistributionNames :
                       ConditionAllows(st.condition, acct, RequestArn(a, d))
                           <=> (a = acct /\ d = "CloudFrontDistribution")

C3_Witness ==
    /\ pc = "synthesized"
    /\ "S3BucketPolicy" \in Declared
    /\ account \in AccountIds
    /\ GrantsToCloudFront(resources["S3BucketPolicy"].policy[1], {"s3:GetObject"})

(* C4: every key-policy statement that gives the CloudFront service         *)
(* principal kms:Decrypt or kms:GenerateDataKey carries an AWS:SourceArn    *)
(* condition with the stack's account in it: it lets through every          *)
(* distribution of the deploying account and none of another account.       *)
C4_KeyPolicyScopedToAccount ==
    \A id \in Declared : resources[id].type = "AWS::KMS::Key" =>
        \A i \in DOMAIN resources[id].policy :
            LET st == resources[id].policy[i] IN
            GrantsToCloudFront(st, {"kms:Decrypt", "kms:GenerateDataKey"}) =>
                /\ st.condition.op # ""
                /\ st.condition.key = "AWS:SourceArn"
                /\ StackAccount \in {st.condition.val[j] : j \in DOMAIN st.condition.val}
                /\ \A acct \in DeployAccounts, a \in AccountIds, d \in DistributionNames :
                       ConditionAllows(st.condition, acct, RequestArn(a, d)) <=> (a = acct)

C4_Witness ==
    /\ Past("kms_policy")
    /\ Len(resources["S3KMSKey"].policy) = 2
    /\ resources["S3KMSKey"].policy[2].actions = {"kms:Decrypt", "kms:GenerateDataKey"}
    /\ GrantsToCloudFront(resources["S3KMSKey"].policy[2], {"kms:Decrypt"})

(* C5: from its declaration on, through every later statement and for every *)
(* account and region, the bucket blocks all public access.                 *)
C5_BucketBlocksAllPublicAccess ==
    "S3Bucket" \in Declared =>
        /\ "PublicAccessBlockConfiguration" \in DOMAIN resources["S3Bucket"].props
        /\ resources["S3Bucket"].props["PublicAccessBlockConfiguration"] = <<Lit("BLOCK_ALL")>>

C5_Witness ==
    /\ Past("outputs")
    /\ "S3Bucket" \in Declared
    /\ Len(resources["S3KMSKey"].policy) = 2
    /\ "S3BucketPolicy" \in Declared
    /\ account = None

(* C6: the bucket does not depend on the distribution; in a teardown that   *)
(* deletes a resource only after its dependents, the bucket policy goes     *)
(* before the distribution and the distribution before the bucket, and      *)
(* while something is left there is a resource that can be deleted.         *)
C6_TeardownOrder ==
    /\ "S3Bucket" \in Declared => "CloudFrontDistribution" \notin DependsOnTransitively("S3Bucket")
    /\ "CloudFrontDistribution" \in deleted => "S3BucketPolicy" \in deleted
    /\ "S3Bucket" \in deleted => "CloudFrontDistribution" \in deleted
    /\ (pc = "destroying" /\ deleted # created) => \E r \in created : CanDelete(r)

C6_Witness ==
    /\ pc = "destroying"
    /\ "CloudFrontDistribution" \in deleted
    /\ "S3Bucket" \notin deleted

C8_NoDanglingReference ==
    /\ \A e \in Deps : e[2] \in Declared
    /\ \A o \in DOMAIN outputs : ValueRefs(outputs[o]) \subseteq Declared
    /\ Past("outputs") =>
          /\ DOMAIN outputs = {"BucketName", "KMSKeyId", "KMSKeyAlias",
                               "CloudFrontDistributionId", "CloudFrontDomainName",
                               "OriginAccessControlId"}
          /\ \A o \in DOMAIN outputs :
                \/ ValueRefs(outputs[o]) # {}
                \/ \E r \in Declared : \E q \in DOMAIN resources[r].props :
                      resources[r].props[q] = outputs[o]
          /\ {<<"S3Bucket", "S3KMSKey">>, <<"S3KMSKeyAlias", "S3KMSKey">>,
              <<"CloudFrontDistribution", "S3Bucket">>,
              <<"CloudFrontDistribution", "OriginAccessControl">>,
              <<"S3BucketPolicy", "S3Bucket">>,
              <<"S3BucketPolicy", "CloudFrontDistribution">>} \subseteq Deps

C8_Witness ==
    /\ pc = "synthesized"
    /\ Cardinality(DOMAIN outputs) = 6
    /\ ValueRefs(outputs["OriginAccessControlId"]) = {"OriginAccessControl"}

(* C9: the stack's region is the value of the environment variable named    *)
(* us-east-1 and its account that of ACCOUNT_ID_ENV_VAR; with us-east-1     *)
(* unset the region is None, whatever CDK_DEFAULT_REGION holds.             *)
C9_RegionFromVariableNamedUsEast1 ==
    Past("app") =>
        /\ region = env["us-east-1"]
        /\ account = env["ACCOUNT_ID_ENV_VAR"]
        /\ env["us-east-1"] = None => region = None

C9_Witness ==
    /\ Past("app")
    /\ env["us-east-1"] = None
    /\ env["CDK_DEFAULT_REGION"] = "us-east-1"
    /\ region = None

(* C10: after the two overrides the distribution's first origin names the   *)
(* origin access control of this graph by its Id attribute and has an empty *)
(* origin access identity, and the engine never has the distribution        *)
(* without the origin access control.                                       *)
C10_OriginUsesAccessControl ==
    /\ Past("override_oac") =>
          LET props == resources["CloudFrontDistribution"].props IN
          /\ "DistributionConfig.Origins.0.OriginAccessControlId" \in DOMAIN props
          /\ props["DistributionConfig.Origins.0.OriginAccessControlId"]
                = <<GetAtt("OriginAccessControl", "Id")>>
          /\ props["DistributionConfig.Origins.0.S3OriginConfig.OriginAccessIdentity"]
                = <<Lit("")>>
          /\ "OriginAccessControl" \in Declared
          /\ resources["OriginAccessControl"].type = "AWS::CloudFront::OriginAccessControl"
          /\ "OriginAccessControl" \in DepsOf("CloudFrontDistribution")
    /\ "CloudFrontDistribution" \in created => "OriginAccessControl" \in created

C10_Witness ==
    /\ pc = "deploying"
    /\ "CloudFrontDistribution" \in created
    /\ "S3BucketPolicy" \notin created

====
